---- MODULE Spec2Model ----
(***************************************************************************)
(* Model of scripts/2A.evaluate-classifier-pdx.py: the notebook that loads *)
(* the Ras / TP53 mutation tables, the clinical table and the classifier   *)
(* scores, joins them with three pandas left merges, derives the binary    *)
(* status labels and hands label / score vectors to the metric functions.  *)
(*                                                                         *)
(* A data frame is a sequence of records (rows in frame order).  A missing *)
(* cell (NaN) is the value Null.  DataFrame.merge(how='left') is modelled  *)
(* with the semantics of pandas: one output row per (left row, matching    *)
(* right row) pair, left order kept, a single null-padded row for a left   *)
(* row without a match, and a null key matching a null key.               *)
(***************************************************************************)
EXTENDS Naturals, Sequences, FiniteSets, TLC

\* ------------------------------------------------------------------ bounds
MaxScores == 2
MaxRows == 3
MaxHistologyRows == 2

\* ------------------------------------------------------------- cell values
Null == "<NaN>"

SampleIds == {"A", "B"}
\* Sample "B" stands for a sample without mutation rows; a mutation row names
\* sample "A" or has an empty Model cell.
Models == {"A", Null}
RasGenes == {"KRAS", "NRAS", Null}
Tp53Genes == {"TP53", Null}
WildType == "wild-type"

\* Histology strings, spelled out so that str.contains is a real search.
Chars(s) ==
    CASE s = "Other" -> <<"O", "t", "h", "e", "r">>
      [] s = "Other Sarcoma" -> <<"O", "t", "h", "e", "r", " ", "S", "a">>
      [] s = "Sarcoma, Other" -> <<"S", "a", ",", " ", "O", "t", "h", "e", "r">>
      [] s = "other" -> <<"o", "t", "h", "e", "r">>
      [] s = "Mother" -> <<"M", "o", "t", "h", "e", "r">>
      [] s = "Othe" -> <<"O", "t", "h", "e">>
      [] s = "Ewing" -> <<"E", "w", "i", "n", "g">>

Histologies == {"Other Sarcoma", Null}
AllHistologies ==
    {"Other", "Other Sarcoma", "Sarcoma, Other", "other", "Mother", "Othe",
     "Ewing", Null}

\* str.startswith in place of str.contains.
StrStartsWith(s, pat) ==
    LET cs == Chars(s)
        cp == Chars(pat)
    IN  Len(cp) <= Len(cs) /\ SubSeq(cs, 1, Len(cp)) = cp

\* Series.str.contains(pat) for a pattern without regex metacharacters:
\* case-sensitive substring search.
StrContains(s, pat) ==
    LET cs == Chars(s)
        cp == Chars(pat)
    IN  \E i \in 1..Len(cs) :
            /\ i + Len(cp) - 1 <= Len(cs)
            /\ SubSeq(cs, i, i + Len(cp) - 1) = cp

\* ------------------------------------------------------------------- state
VARIABLES
    pc,              \* the notebook cell about to run, "done" or "error"
    scores_file,     \* results/pdx_classifier_scores.tsv as read
    clinical_file,   \* data/raw/2018-05-22-pdx-clinical.txt as read
    clinical_df,
    tp53_status_df,
    ras_status_df,
    scores_df,
    idx,             \* loop counter of the metrics cell
    stored,          \* <<dictionary name, key>> pairs written by the metrics cell
    evaluated,       \* key -> the rows whose label and score were passed on
    ttest            \* pathway -> the two groups passed to ttest_ind

vars == <<pc, scores_file, clinical_file, clinical_df, tp53_status_df,
          ras_status_df, scores_df, idx, stored, evaluated, ttest>>

\* ------------------------------------------------------------------ inputs
SeqsUpTo(S, n) == UNION {[1..k -> S] : k \in 0..n}

\* A score row.  The four float columns (ras_score, tp53_score, ras_shuffle,
\* tp53_shuffle) are never read by the joins; they ride along as one payload,
\* score_row, which is the row's position in the score file.
ScoreTables ==
    {[i \in 1..Len(ids) |-> [sample_id |-> ids[i], score_row |-> i]] :
        ids \in SeqsUpTo(SampleIds, MaxScores)}

HistologyScoreTables ==
    {<<[sample_id |-> "A", score_row |-> 1]>>,
     <<[sample_id |-> "A", score_row |-> 1], [sample_id |-> "B", score_row |-> 2]>>}

ClinicalRows(H) == [Model : SampleIds, Histology : H]
Tp53Rows == [Model : Models, Hugo_Symbol : Tp53Genes]
RasRows == [Model : Models, Hugo_Symbol : RasGenes]

Init ==
    /\ pc = "load_clinical"
    /\ scores_file \in ScoreTables
    /\ \E c \in 0..MaxRows, t \in 0..MaxRows, r \in 0..MaxRows :
        /\ c + t + r <= MaxRows
        /\ clinical_file \in [1..c -> ClinicalRows(Histologies)]
        /\ tp53_status_df \in [1..t -> Tp53Rows]
        /\ ras_status_df \in [1..r -> RasRows]
    /\ clinical_df = <<>>
    /\ scores_df = <<>>
    /\ idx = 0
    /\ stored = {}
    /\ evaluated = <<>>
    /\ ttest = <<>>

\* The same program started on a clinical table with every kind of histology
\* string and on at most one mutation row per pathway.
InitHistology ==
    /\ pc = "load_clinical"
    /\ scores_file \in HistologyScoreTables
    /\ clinical_file \in SeqsUpTo(ClinicalRows(AllHistologies), MaxHistologyRows)
    /\ tp53_status_df \in {<<>>, <<[Model |-> "A", Hugo_Symbol |-> "TP53"]>>}
    /\ ras_status_df \in {<<>>, <<[Model |-> "A", Hugo_Symbol |-> "KRAS"]>>}
    /\ clinical_df = <<>>
    /\ scores_df = <<>>
    /\ idx = 0
    /\ stored = {}
    /\ evaluated = <<>>
    /\ ttest = <<>>

\* --------------------------------------------------------- table operators
RECURSIVE Flatten(_)
Flatten(blocks) ==
    IF blocks = <<>> THEN <<>> ELSE Head(blocks) \o Flatten(Tail(blocks))

\* A join that keeps only the first matching row of `right`.
FirstMatch(key, right) ==
    LET m == SelectSeq(right, LAMBDA r : r.Model = key)
    IN  IF Len(m) = 0 THEN <<>> ELSE <<Head(m)>>

\* The rows of `right` whose key Model equals `key`, in the order of `right`.
\* pandas factorizes a null key like any other value, so null matches null.
Matches(key, right) == SelectSeq(right, LAMBDA r : r.Model = key)

\* clinical_df.loc[clinical_df.Histology.str.contains('Other'), 'Histology'] = "Other"
NormalizeHistology(df) ==
    [i \in 1..Len(df) |->
        IF StrContains(df[i].Histology, "Other")
        THEN [df[i] EXCEPT !.Histology = "Other"]
        ELSE df[i]]

\* str.contains gives NaN for a missing cell and .loc refuses such a mask.
MaskHasNa(df) == \E i \in 1..Len(df) : df[i].Histology = Null

\* The same merge with how='inner': a left row without a match is dropped.
InnerMergeClinicalDf(left, right) ==
    Flatten([i \in 1..Len(left) |->
        LET m == SelectSeq(right, LAMBDA r : r.Model = left[i].sample_id)
        IN  [j \in 1..Len(m) |->
                left[i] @@ [Model |-> m[j].Model,
                            Histology |-> m[j].Histology]]])

\* scores_df.merge(clinical_df, how='left', left_on='sample_id', right_on='Model')
MergeClinicalDf(left, right) ==
    Flatten([i \in 1..Len(left) |->
        LET m == Matches(left[i].sample_id, right)
        IN  IF Len(m) = 0
            THEN <<left[i] @@ [Model |-> Null, Histology |-> Null]>>
            ELSE [j \in 1..Len(m) |->
                    left[i] @@ [Model |-> m[j].Model,
                                Histology |-> m[j].Histology]]])

\* .merge(tp53_status_df.loc[:, ['Hugo_Symbol', 'Model']], how='left', on Model)
MergeTp53(left, right) ==
    Flatten([i \in 1..Len(left) |->
        LET m == Matches(left[i].Model, right)
        IN  IF Len(m) = 0
            THEN <<left[i] @@ [Hugo_Symbol |-> Null]>>
            ELSE [j \in 1..Len(m) |->
                    left[i] @@ [Hugo_Symbol |-> m[j].Hugo_Symbol]]])

\* .merge(ras_status_df.loc[:, ['Hugo_Symbol', 'Model']], how='left', on Model,
\*        suffixes=('_tp53', '_ras')): the clashing Hugo_Symbol columns are renamed.
Suffixed(l, ras_gene) ==
    [sample_id |-> l.sample_id, score_row |-> l.score_row,
     Model |-> l.Model, Histology |-> l.Histology,
     Hugo_Symbol_tp53 |-> l.Hugo_Symbol, Hugo_Symbol_ras |-> ras_gene]

MergeRas(left, right) ==
    Flatten([i \in 1..Len(left) |->
        LET m == Matches(left[i].Model, right)
        IN  IF Len(m) = 0
            THEN <<Suffixed(left[i], Null)>>
            ELSE [j \in 1..Len(m) |-> Suffixed(left[i], m[j].Hugo_Symbol)]])

\* Cells of the two status columns: a gene string, NaN, or a Python int.
StrCell(s) == [str |-> s]
IntCell(n) == [int |-> n]
NaNCell == [nan |-> TRUE]
AsCell(v) == IF v = Null THEN NaNCell ELSE StrCell(v)

\* scores_df.assign(tp53_status = ...['Hugo_Symbol_tp53']) and the same for ras
AssignColumns(df) ==
    [i \in 1..Len(df) |->
        df[i] @@ [tp53_status |-> AsCell(df[i].Hugo_Symbol_tp53),
                  ras_status |-> AsCell(df[i].Hugo_Symbol_ras)]]

FillNaZero(c) == IF c = NaNCell THEN IntCell(0) ELSE c
FillNaWildType(v) == IF v = Null THEN WildType ELSE v
\* The comparison inverted: == 0 in place of != 0.
SetOneIfZero(c) == IF c = IntCell(0) THEN IntCell(1) ELSE c
\* .loc[scores_df[status] != 0, status] = 1
SetOneIfNotZero(c) == IF c /= IntCell(0) THEN IntCell(1) ELSE c

FillAndBinarize(df) ==
    [i \in 1..Len(df) |->
        [df[i] EXCEPT
            !.tp53_status = SetOneIfNotZero(FillNaZero(@)),
            !.ras_status = SetOneIfNotZero(FillNaZero(@)),
            !.Hugo_Symbol_tp53 = FillNaWildType(@),
            !.Hugo_Symbol_ras = FillNaWildType(@)]]

\* ---------------------------------------------------------- metric inputs
StatusColumn == <<"ras_status", "tp53_status">>

\* scores_df.loc[:, status] next to scores_df.loc[:, score]: one entry per row
\* of the whole frame.  An entry is the label, the score payload and, to tell
\* where the entry came from, the Model cell of its row.
MetricInputs(df, k) ==
    [i \in 1..Len(df) |->
        [score_row |-> df[i].score_row,
         Model |-> df[i].Model,
         label |-> df[i][StatusColumn[k + 1]]]]

Labels(v) == {v[i].label : i \in 1..Len(v)}

\* roc_curve rejects an empty label vector.
CurveRaises(v) == Len(v) = 0
\* roc_auc_score: "Only one class present in y_true".
AurocRaises(v) == Labels(v) /= {IntCell(0), IntCell(1)}

RealNames == {"fpr_pdx", "tpr_pdx", "precision_pdx", "recall_pdx",
              "auroc_pdx", "aupr_pdx"}
ShuffNames == {"fpr_shuff", "tpr_shuff", "precision_shuff", "recall_shuff",
               "auroc_shuff", "aupr_shuff"}
CurveNames == {"fpr_pdx", "tpr_pdx", "precision_pdx", "recall_pdx"}

\* scores_df.query('<status> == v').loc[:, '<score>']
Query(df, col, v) == SelectSeq(df, LAMBDA r : r[col] = IntCell(v))
TTestGroups(df, col) ==
    [a |-> [i \in 1..Len(Query(df, col, 1)) |->
                [score_row |-> Query(df, col, 1)[i].score_row,
                 Model |-> Query(df, col, 1)[i].Model]],
     b |-> [i \in 1..Len(Query(df, col, 0)) |->
                [score_row |-> Query(df, col, 0)[i].score_row,
                 Model |-> Query(df, col, 0)[i].Model]]]

\* ----------------------------------------------------------------- actions
\* In[11]
LoadClinical ==
    /\ pc = "load_clinical"
    /\ IF MaskHasNa(clinical_file)
       THEN /\ pc' = "error"
            /\ clinical_df' = clinical_file
       ELSE /\ pc' = "load_scores"
            /\ clinical_df' = NormalizeHistology(clinical_file)
    /\ UNCHANGED <<scores_file, clinical_file, tp53_status_df, ras_status_df,
                   scores_df, idx, stored, evaluated, ttest>>

\* In[13]
LoadScores ==
    /\ pc = "load_scores"
    /\ scores_df' = scores_file
    /\ pc' = "merge_clinical"
    /\ UNCHANGED <<scores_file, clinical_file, clinical_df, tp53_status_df,
                   ras_status_df, idx, stored, evaluated, ttest>>

\* In[14]
MergeClinical ==
    /\ pc = "merge_clinical"
    /\ scores_df' = MergeClinicalDf(scores_df, clinical_df)
    /\ pc' = "merge_mutations"
    /\ UNCHANGED <<scores_file, clinical_file, clinical_df, tp53_status_df,
                   ras_status_df, idx, stored, evaluated, ttest>>

\* In[16]
MergeMutations ==
    /\ pc = "merge_mutations"
    /\ scores_df' = MergeRas(MergeTp53(scores_df, tp53_status_df), ras_status_df)
    /\ pc' = "assign_status"
    /\ UNCHANGED <<scores_file, clinical_file, clinical_df, tp53_status_df,
                   ras_status_df, idx, stored, evaluated, ttest>>

\* In[17]
AssignStatus ==
    /\ pc = "assign_status"
    /\ scores_df' = AssignColumns(scores_df)
    /\ pc' = "fill_status"
    /\ UNCHANGED <<scores_file, clinical_file, clinical_df, tp53_status_df,
                   ras_status_df, idx, stored, evaluated, ttest>>

\* In[18]
FillStatus ==
    /\ pc = "fill_status"
    /\ scores_df' = FillAndBinarize(scores_df)
    /\ pc' = "metrics"
    /\ UNCHANGED <<scores_file, clinical_file, clinical_df, tp53_status_df,
                   ras_status_df, idx, stored, evaluated, ttest>>

\* In[19]: one pass of the for loop.  Nothing catches an exception, so a
\* raising call ends the cell with the assignments made so far.
MetricsIteration ==
    /\ pc = "metrics"
    /\ idx < 2
    /\ LET v == MetricInputs(scores_df, idx)
       IN  /\ evaluated' = Append(evaluated, v)
           /\ IF CurveRaises(v)
              THEN /\ stored' = stored
                   /\ idx' = idx
                   /\ pc' = "error"
              ELSE IF AurocRaises(v)
              THEN /\ stored' = stored \cup {<<n, idx>> : n \in CurveNames}
                   /\ idx' = idx
                   /\ pc' = "error"
              ELSE /\ stored' = stored \cup
                                {<<n, idx>> : n \in RealNames \cup ShuffNames}
                   /\ idx' = idx + 1
                   /\ pc' = IF idx + 1 = 2 THEN "ttest_ras" ELSE "metrics"
    /\ UNCHANGED <<scores_file, clinical_file, clinical_df, tp53_status_df,
                   ras_status_df, scores_df, ttest>>

\* In[23]
TTestRas ==
    /\ pc = "ttest_ras"
    /\ ttest' = Append(ttest, TTestGroups(scores_df, "ras_status"))
    /\ pc' = "ttest_tp53"
    /\ UNCHANGED <<scores_file, clinical_file, clinical_df, tp53_status_df,
                   ras_status_df, scores_df, idx, stored, evaluated>>

\* In[24]
TTestTp53 ==
    /\ pc = "ttest_tp53"
    /\ ttest' = Append(ttest, TTestGroups(scores_df, "tp53_status"))
    /\ pc' = "done"
    /\ UNCHANGED <<scores_file, clinical_file, clinical_df, tp53_status_df,
                   ras_status_df, scores_df, idx, stored, evaluated>>

Next ==
    \/ LoadClinical
    \/ LoadScores
    \/ MergeClinical
    \/ MergeMutations
    \/ AssignStatus
    \/ FillStatus
    \/ MetricsIteration
    \/ TTestRas
    \/ TTestTp53

Spec == Init /\ [][Next]_vars
SpecHistology == InitHistology /\ [][Next]_vars

\* ------------------------------------------------------------------ claims
\* The frame holds the three merges.
Merged == pc \in {"assign_status", "fill_status", "metrics", "ttest_ras",
                  "ttest_tp53", "done"}
\* The frame is the final reconciled table (In[18] has run).
FinalTable == pc \in {"metrics", "ttest_ras", "ttest_tp53", "done"}

Pathways == {"ras", "tp53"}
MutationTable(P) == IF P = "ras" THEN ras_status_df ELSE tp53_status_df
Status(r, P) == IF P = "ras" THEN r.ras_status ELSE r.tp53_status
DisplayGene(r, P) == IF P = "ras" THEN r.Hugo_Symbol_ras ELSE r.Hugo_Symbol_tp53
\* The rows of a mutation table naming the model, by position.
RowsNaming(model, P) ==
    {k \in 1..Len(MutationTable(P)) : MutationTable(P)[k].Model = model}
RowsOf(k) == {i \in 1..Len(scores_df) : scores_df[i].score_row = k}

\* C1: after the three left merges the frame has exactly as many rows as the
\* score table that was read.
C1_RowCountInvariant == Merged => Len(scores_df) = Len(scores_file)

\* C2: in the final table, for each pathway, the status of a row with a
\* resolved Model is 1 exactly when that Model is named by at least one row of
\* the pathway's mutation table, and 0 otherwise.  (Rows without a resolved
\* Model are the subject of C3.)
C2_LabelExact ==
    FinalTable =>
        \A i \in 1..Len(scores_df) : \A P \in Pathways :
            LET r == scores_df[i]
            IN  r.Model /= Null =>
                    Status(r, P) = IF RowsNaming(r.Model, P) /= {}
                                   THEN IntCell(1)
                                   ELSE IntCell(0)

\* C3: in the final table, a row whose sample_id matches no clinical Model has
\* Model null, Histology null and both statuses 0, whatever the mutation
\* tables hold.
C3_UnmatchedDefault ==
    FinalTable =>
        \A i \in 1..Len(scores_df) :
            LET r == scores_df[i]
            IN  (\A k \in 1..Len(clinical_df) :
                        clinical_df[k].Model /= r.sample_id)
                => /\ r.Model = Null
                   /\ r.Histology = Null
                   /\ r.ras_status = IntCell(0)
                   /\ r.tp53_status = IntCell(0)

\* C4: when a resolved Model has several rows in a pathway's mutation table,
\* the final table has exactly one row for that score row, and its display
\* gene is the gene of the first such mutation row in file order.
C4_FirstMatch ==
    FinalTable =>
        \A i \in 1..Len(scores_df) : \A P \in Pathways :
            LET r == scores_df[i]
                ks == RowsNaming(r.Model, P)
                first == CHOOSE k \in ks : \A k2 \in ks : k <= k2
            IN  (r.Model /= Null /\ Cardinality(ks) >= 2)
                => /\ Cardinality(RowsOf(r.score_row)) = 1
                   /\ DisplayGene(r, P)
                        = FillNaWildType(MutationTable(P)[first].Hugo_Symbol)

OneClass(P) ==
    {Status(scores_df[i], P) : i \in 1..Len(scores_df)}
        /= {IntCell(0), IntCell(1)}

\* C5: when the metrics cell has ended on a degenerate Ras label vector while
\* the TP53 label vector has both classes, the TP53 metrics (key 1) are stored
\* all the same.
C5_ErrorsIsolated ==
    (pc = "error" /\ Len(evaluated) > 0 /\ OneClass("ras") /\ ~OneClass("tp53"))
        => \A n \in RealNames \cup ShuffNames : <<n, 1>> \in stored

\* C6: no row whose Model is null after the clinical merge is among the label
\* and score vectors given to the metric functions or to ttest_ind.
C6_UnidentifiedRemoved ==
    /\ \A k \in 1..Len(evaluated) : \A i \in 1..Len(evaluated[k]) :
            evaluated[k][i].Model /= Null
    /\ \A k \in 1..Len(ttest) :
            /\ \A i \in 1..Len(ttest[k].a) : ttest[k].a[i].Model /= Null
            /\ \A i \in 1..Len(ttest[k].b) : ttest[k].b[i].Model /= Null

\* The histology strings that contain "Other", read off the strings themselves.
WithOther == {"Other", "Other Sarcoma", "Sarcoma, Other"}
LoadedClinical == pc /= "load_clinical" /\ ~MaskHasNa(clinical_file)

\* C7: once the clinical table is loaded, a row whose original Histology
\* contains "Other" (case-sensitive) has Histology "Other", every other row is
\* unchanged, and normalizing again changes nothing.
C7_HistologyNormalized ==
    LoadedClinical =>
        /\ Len(clinical_df) = Len(clinical_file)
        /\ \A i \in 1..Len(clinical_file) :
            clinical_df[i] =
                IF clinical_file[i].Histology \in WithOther
                THEN [clinical_file[i] EXCEPT !.Histology = "Other"]
                ELSE clinical_file[i]
        /\ NormalizeHistology(clinical_df) = clinical_df

C7_Witness ==
    /\ pc = "load_scores"
    /\ \E i \in 1..Len(clinical_file) :
        /\ clinical_file[i].Histology = "Sarcoma, Other"
        /\ clinical_df[i].Histology = "Other"
    /\ \E i \in 1..Len(clinical_file) :
        /\ clinical_file[i].Histology = "Mother"
        /\ clinical_df[i].Histology = "Mother"

\* In[14] to In[18] as one function of the four tables.
Reconcile(scores, clinical, tp53, ras) ==
    FillAndBinarize(AssignColumns(
        MergeRas(MergeTp53(MergeClinicalDf(scores, clinical), tp53), ras)))

\* The sequences obtained from t by removing the row at position k.
Without(t, k) == SubSeq(t, 1, k - 1) \o SubSeq(t, k + 1, Len(t))
\* Every reordering of the rows of a table.
RECURSIVE Reorderings(_)
Reorderings(t) ==
    IF Len(t) <= 1
    THEN {t}
    ELSE UNION {{<<t[k]>> \o rest : rest \in Reorderings(Without(t, k))} :
                    k \in 1..Len(t)}

Triple(r) == <<r.sample_id, r.ras_status, r.tp53_status>>
\* The multiset of triples of a frame: triple -> number of rows carrying it.
TripleBag(df) ==
    LET ts == [i \in 1..Len(df) |-> Triple(df[i])]
    IN  [t \in {ts[i] : i \in 1..Len(ts)} |->
            Cardinality({i \in 1..Len(ts) : ts[i] = t})]

\* The model's Ras rows are two or more and name pairwise distinct genes.
MultiGene(model) ==
    LET ks == RowsNaming(model, "ras")
    IN  /\ Cardinality(ks) >= 2
        /\ \A k \in ks : ras_status_df[k].Hugo_Symbol /= Null
        /\ \A k, k2 \in ks :
            k /= k2 => ras_status_df[k].Hugo_Symbol /= ras_status_df[k2].Hugo_Symbol

\* C8: in the final table every row of a Model whose Ras rows are two or more
\* distinct genes has ras_status 1, and the multiset of (sample_id, ras_status,
\* tp53_status) is the same for every reordering of the two mutation tables.
C8_MultiGeneEquivalence ==
    (pc = "metrics" /\ idx = 0) =>
        /\ \A i \in 1..Len(scores_df) :
            MultiGene(scores_df[i].Model) => scores_df[i].ras_status = IntCell(1)
        /\ {TripleBag(Reconcile(scores_file, clinical_df, t, r)) :
                t \in Reorderings(tp53_status_df),
                r \in Reorderings(ras_status_df)} = {TripleBag(scores_df)}

C8_Witness ==
    /\ pc = "metrics"
    /\ idx = 0
    /\ \E i \in 1..Len(scores_df) :
        /\ scores_df[i].Model = "A"
        /\ MultiGene("A")
        /\ scores_df[i].ras_status = IntCell(1)
    /\ \E k \in 1..Len(ras_status_df) : ras_status_df[k].Hugo_Symbol = "NRAS"

\* C9: in every row of the final table and for each pathway the status is 0
\* or 1, it is 0 exactly when the display gene is "wild-type", and when it is 1
\* the display gene is the gene of a mutation row naming the row's Model.
C9_StatusGeneCoupling ==
    FinalTable =>
        \A i \in 1..Len(scores_df) : \A P \in Pathways :
            LET r == scores_df[i]
            IN  /\ Status(r, P) \in {IntCell(0), IntCell(1)}
                /\ Status(r, P) = IntCell(0) <=> DisplayGene(r, P) = WildType
                /\ Status(r, P) = IntCell(1) =>
                    \E k \in RowsNaming(r.Model, P) :
                        MutationTable(P)[k].Hugo_Symbol = DisplayGene(r, P)

C9_Witness ==
    /\ FinalTable
    /\ \E i \in 1..Len(scores_df) :
        /\ scores_df[i].ras_status = IntCell(1)
        /\ scores_df[i].Hugo_Symbol_ras = "NRAS"
        /\ scores_df[i].tp53_status = IntCell(0)
        /\ scores_df[i].Hugo_Symbol_tp53 = WildType
    /\ \E i \in 1..Len(scores_df) :
        /\ scores_df[i].ras_status = IntCell(0)
        /\ scores_df[i].Model /= Null

\* C10: through the three merges the rows stay in score-file order (a row
\* derived from an earlier score row precedes every row derived from a later
\* one), each still carries its score row's sample_id, and every score row is
\* present at least once.
C10_OrderPreserved ==
    Merged =>
        /\ \A i, j \in 1..Len(scores_df) :
            i < j => scores_df[i].score_row <= scores_df[j].score_row
        /\ \A i \in 1..Len(scores_df) :
            /\ scores_df[i].score_row \in 1..Len(scores_file)
            /\ scores_df[i].sample_id = scores_file[scores_df[i].score_row].sample_id
        /\ \A k \in 1..Len(scores_file) : RowsOf(k) /= {}

C10_Witness ==
    /\ Merged
    /\ Len(scores_file) = 2
    /\ Len(scores_df) > Len(scores_file)
    /\ scores_df[1].Model = Null
    /\ scores_df[Len(scores_df)].Model /= Null

====
